---- MODULE Spec2Model ----
(***************************************************************************)
(* A model of the ble-ingester binary of home-environments: the SwitchBot  *)
(* and RATOC Systems payload decoders, the ingester task that offers       *)
(* decoded readings to the per-device minute buckets, the periodic task    *)
(* that forwards buckets to PostgreSQL, and the bulk insert itself.        *)
(*                                                                         *)
(* Time is counted in microseconds since an instant that lies on a minute  *)
(* boundary, so that the truncation of TimeDelta::num_milliseconds() is    *)
(* visible.  Temperatures are kept in tenths of a degree, voltages in      *)
(* tenths of a volt and power in milliwatts: the integers the decoders     *)
(* compute before their final division.                                    *)
(***************************************************************************)
EXTENDS Integers, Sequences, FiniteSets, TLC

VARIABLES
    now,          \* what Utc::now() returns at this moment (microseconds)
    db,           \* the Db map behind the Mutex: device -> bucket -> entry
    lock,         \* who holds the tokio Mutex around db
    ipc,          \* the ingester task's await point
    ing,          \* the ingester task's locals while it waits for the lock
    lastOffer,    \* which branch the last offer took
    fpc,          \* the flush ("printer") task's await point
    printer,      \* the flush task's locals: now, keys_to_insert, measurments
    lastInsert,   \* what the last bulk_insert_switchbot_measurements returned
    table,        \* the rows of switchbot_measurements
    callArgs,     \* the arguments of the last direct call of a pure function
    callResult    \* and what it returned

vars == <<now, db, lock, ipc, ing, lastOffer, fpc, printer, lastInsert, table,
          callArgs, callResult>>

----------------------------------------------------------------------------
(* Bounds of the model *)

\* the clock is read around the minute boundaries 1..MaxMinute
MaxMinute == 2

\* a batch handed to the sink directly has at most this many measurements
MaxBatch == 2

\* payload bytes handed to the decoders directly have at most this many
\* bytes more than the longest minimum length
MaxExtraBytes == 1

----------------------------------------------------------------------------
(* Result and Option values *)

Ok(v) == [ok |-> TRUE, val |-> v]

Err(e) == [ok |-> FALSE, err |-> e]

Some(v) == <<v>>

None == <<>>

\* data[i] of a Rust slice (indices from 0)
At(data, i) == data[i + 1]

\* what an index past the end of a slice does: the thread panics
Panic == [ok |-> FALSE, err |-> "panic: index out of bounds"]

\* the bounds checks of the indexing expressions of a decoder
in_bounds(data, indices) == \A i \in indices : i < Len(data)

----------------------------------------------------------------------------
(* switchbot.rs: the SwitchBot decoders *)

SWITCHBOT_MANUFACTURER_DATA_COMPANY_ID == 2409

SWITCHBOT_SERVICE_DATA_UUID == "0000fd3d-0000-1000-8000-00805f9b34fb"

DeviceTypes ==
    {"Hub", "HubMini", "Hub2", "Hub3", "Meter", "MeterPlus", "WoIOSensor",
     "MeterPro", "MeterProCO2"}

DecodedMeasurement(t, h, c, l) ==
    [temperature_celsius |-> t, humidity_percent |-> h,
     co2_ppm |-> c, light_level |-> l]

\* decode_temperature reading the top bit of the second byte as "negative",
\* the usual sign-bit convention
decode_temperature_negative_when_set(v0, v1) ==
    LET fractional_part == v0 % 16
        integral_part == v1 % 128
        sign == IF v1 >= 128 THEN -1 ELSE 1
    IN  Ok(sign * (integral_part * 10 + fractional_part))

\* tenths of a degree: the i16 the code computes before "as f32 / 10f32"
decode_temperature(v0, v1) ==
    LET fractional_part == v0 % 16
        integral_part == v1 % 128
        sign == IF v1 >= 128 THEN 1 ELSE -1
    IN  Ok(sign * (integral_part * 10 + fractional_part))

\* decode_humidity clamping to 100 where the code bails
decode_humidity_clamping(v) ==
    LET humidity == v % 128
    IN  IF humidity > 100 THEN Ok(100) ELSE Ok(humidity)

decode_humidity(v) ==
    LET humidity == v % 128
    IN  IF humidity > 100 THEN Err("humidity out of range") ELSE Ok(humidity)

decode_co2(v0, v1) == Ok(v0 * 256 + v1)

decode_light_level(v) ==
    LET light_level == v % 128
    IN  IF light_level > 20 THEN Err("light level out of range")
        ELSE Ok(light_level)

decode_todo(data) == Err("todo")

\* decode_hub2_manufacturer_data with the length guard at 15: a buffer of
\* 15 bytes passes it and is indexed at 15
decode_hub2_manufacturer_data_guarding_15(data) ==
    IF Len(data) < 15 THEN Err("too short")
    ELSE IF ~in_bounds(data, {12, 13, 14, 15}) THEN Panic
    ELSE LET t == decode_temperature(At(data, 13), At(data, 14))
             h == decode_humidity(At(data, 15))
             l == decode_light_level(At(data, 12))
         IN  IF ~t.ok THEN t
             ELSE IF ~h.ok THEN h
             ELSE IF ~l.ok THEN l
             ELSE Ok(DecodedMeasurement(t.val, h.val, None, Some(l.val)))

decode_hub2_manufacturer_data(data) ==
    IF Len(data) < 17 THEN Err("too short")
    ELSE IF ~in_bounds(data, {12, 13, 14, 15}) THEN Panic
    ELSE LET t == decode_temperature(At(data, 13), At(data, 14))
             h == decode_humidity(At(data, 15))
             l == decode_light_level(At(data, 12))
         IN  IF ~t.ok THEN t
             ELSE IF ~h.ok THEN h
             ELSE IF ~l.ok THEN l
             ELSE Ok(DecodedMeasurement(t.val, h.val, None, Some(l.val)))

decode_meter_plus_manufacturer_data(data) ==
    IF Len(data) < 11 THEN Err("too short")
    ELSE IF ~in_bounds(data, {8, 9, 10}) THEN Panic
    ELSE LET t == decode_temperature(At(data, 8), At(data, 9))
             h == decode_humidity(At(data, 10))
         IN  IF ~t.ok THEN t
             ELSE IF ~h.ok THEN h
             ELSE Ok(DecodedMeasurement(t.val, h.val, None, None))

decode_wo_io_sensor_manufacturer_data(data) ==
    IF Len(data) < 12 THEN Err("too short")
    ELSE IF ~in_bounds(data, {8, 9, 10}) THEN Panic
    ELSE LET t == decode_temperature(At(data, 8), At(data, 9))
             h == decode_humidity(At(data, 10))
         IN  IF ~t.ok THEN t
             ELSE IF ~h.ok THEN h
             ELSE Ok(DecodedMeasurement(t.val, h.val, None, None))

decode_meter_pro_co2_manufacturer_data(data) ==
    IF Len(data) < 16 THEN Err("too short")
    ELSE IF ~in_bounds(data, {8, 9, 10, 13, 14}) THEN Panic
    ELSE LET t == decode_temperature(At(data, 8), At(data, 9))
             h == decode_humidity(At(data, 10))
             c == decode_co2(At(data, 13), At(data, 14))
         IN  IF ~t.ok THEN t
             ELSE IF ~h.ok THEN h
             ELSE IF ~c.ok THEN c
             ELSE Ok(DecodedMeasurement(t.val, h.val, Some(c.val), None))

decode_manufacturer_data(device_type, data) ==
    CASE device_type = "Hub" -> decode_todo(data)
      [] device_type = "HubMini" -> decode_todo(data)
      [] device_type = "Hub2" -> decode_hub2_manufacturer_data(data)
      [] device_type = "Hub3" -> decode_todo(data)
      [] device_type = "Meter" -> decode_todo(data)
      [] device_type = "MeterPlus" -> decode_meter_plus_manufacturer_data(data)
      [] device_type = "WoIOSensor" ->
            decode_wo_io_sensor_manufacturer_data(data)
      [] device_type = "MeterPro" -> decode_todo(data)
      [] device_type = "MeterProCO2" ->
            decode_meter_pro_co2_manufacturer_data(data)

\* HashMap::get(key).ok_or_else(..): a map is a function on the keys it holds
get_or_not_found(map, key) ==
    IF key \in DOMAIN map THEN Ok(map[key]) ELSE Err("not found")

get_switch_bot_manufacturer_data(manufacturer_data) ==
    get_or_not_found(manufacturer_data, SWITCHBOT_MANUFACTURER_DATA_COMPANY_ID)

get_switch_bot_service_data(service_data) ==
    get_or_not_found(service_data, SWITCHBOT_SERVICE_DATA_UUID)

decode_device_type(v) ==
    CASE v = 118 -> Ok("Hub2")          \* 0x76
      [] v = 84 -> Ok("Meter")          \* 0x54
      [] v = 105 -> Ok("MeterPlus")     \* 0x69
      [] v = 119 -> Ok("WoIOSensor")    \* 0x77
      [] v = 53 -> Ok("MeterProCO2")    \* 0x35
      [] OTHER -> Err("unknown SwitchBot device type")

detect_device_type(service_data) ==
    IF Len(service_data) = 0 THEN Err("SwitchBot service data is empty")
    ELSE decode_device_type(At(service_data, 0))

decode_ble_data(manufacturer_data, service_data) ==
    LET sd == get_switch_bot_service_data(service_data)
    IN  IF ~sd.ok THEN sd
        ELSE LET ty == detect_device_type(sd.val)
             IN  IF ~ty.ok THEN ty
                 ELSE LET md == get_switch_bot_manufacturer_data(manufacturer_data)
                      IN  IF ~md.ok THEN md
                          ELSE decode_manufacturer_data(ty.val, md.val)


\* main.rs:133-137: the service-data path first, then the decoder of the
\* device's declared type on the vendor's manufacturer data.  The call at
\* line 137 names the whole manufacturer_data map where the decoder takes a
\* byte slice; the bytes are those stored under the SwitchBot company id, and
\* a map without that id gives the fallback nothing to decode.
decode_with_fallback(device, properties) ==
    LET first == decode_ble_data(properties.manufacturer_data,
                                 properties.service_data)
    IN  IF first.ok THEN first
        ELSE LET md == get_switch_bot_manufacturer_data(
                           properties.manufacturer_data)
             IN  IF ~md.ok THEN md
                 ELSE decode_manufacturer_data(device.type, md.val)

----------------------------------------------------------------------------
(* ratocsystems.rs: the RATOC Systems power meter decoder *)

\* u16::from_le_bytes([b0, b1])
u16_from_le_bytes(b0, b1) == b0 + 256 * b1

\* u32::from_le_bytes([b0, b1, b2, b3])
u32_from_le_bytes(b0, b1, b2, b3) ==
    b0 + 256 * b1 + 65536 * b2 + 16777216 * b3

\* voltage in tenths of a volt and power in milliwatts: the integers the
\* code converts to f32 and divides by 10 and by 1000.  Every power is a
\* multiple of 2^8 below 2^32, so it has at most 24 significant bits and
\* neither the u32 nor the cast to f32 changes it.
decode_ratocsystems_manufacturer_data(data) ==
    IF Len(data) < 8 THEN Err("too short")
    ELSE Ok([voltage_dv |-> u16_from_le_bytes(At(data, 1), At(data, 2)),
             current_ma |-> u16_from_le_bytes(At(data, 3), At(data, 4)),
             power_mw |-> u32_from_le_bytes(0, At(data, 5), At(data, 6),
                                            At(data, 7))])

----------------------------------------------------------------------------
(* Time: chrono's rounding and millisecond truncation *)

MicrosPerMilli == 1000

MinuteMicros == 60 * 1000 * MicrosPerMilli

\* TimeDelta::seconds(20).num_milliseconds(), main.rs:107
ToleranceMillis == 20000

\* TimeDelta::seconds(30).num_milliseconds(), main.rs:185
FlushMillis == 30000

Abs(x) == IF x >= 0 THEN x ELSE -x

\* TimeDelta::num_milliseconds(): whole milliseconds, truncated toward zero
num_milliseconds(delta) ==
    IF delta >= 0 THEN delta \div MicrosPerMilli
    ELSE -((-delta) \div MicrosPerMilli)

\* DurationRound::duration_round(TimeDelta::minutes(1)): to the nearest
\* minute, a reading exactly half way goes up
duration_round(t) ==
    LET delta_down == t % MinuteMicros
        delta_up == MinuteMicros - delta_down
    IN  IF delta_down = 0 THEN t
        ELSE IF delta_up <= delta_down THEN t + delta_up
        ELSE t - delta_down

\* (measured_at - rounded_measured_at).num_milliseconds().abs()
diff_millis(measured_at, rounded_measured_at) ==
    Abs(num_milliseconds(measured_at - rounded_measured_at))


----------------------------------------------------------------------------
(* The device registry and the events of the BLE adapter *)

\* the rows of switchbot_devices read at startup (main.rs:50-55): one
\* registered device; UnknownAddress is seen on the air and is not one
RegisteredAddresses == {"aa:00:00:00:00:01"}

UnknownAddress == "ff:00:00:00:00:09"

Addresses == RegisteredAddresses \cup {UnknownAddress}

devices ==
    [a \in RegisteredAddresses |->
        [id |-> a,
         type |-> IF a = "aa:00:00:00:00:01" THEN "MeterProCO2" ELSE "Hub2"]]

\* a byte buffer of len bytes, zero but for the fields given (index :> byte)
Bytes(len, fields) ==
    [i \in 1..len |-> IF (i - 1) \in DOMAIN fields THEN fields[i - 1] ELSE 0]

\* Meter Pro CO2 advertisements: 21.5 C / 50 % / 300 ppm, and
\* -0.5 C / 100 % / 40000 ppm
PayloadA == Bytes(16, (8 :> 5) @@ (9 :> 149) @@ (10 :> 50) @@ (13 :> 1) @@ (14 :> 44))

PayloadB == Bytes(16, (8 :> 5) @@ (9 :> 0) @@ (10 :> 100) @@ (13 :> 156) @@ (14 :> 64))

EmptyMap == [k \in {} |-> <<>>]

\* the advertisement properties the adapter reports in the model of the two
\* tasks: service data naming the model, manufacturer data alone, and
\* service data without manufacturer data
EventProperties ==
    {[manufacturer_data |-> (SWITCHBOT_MANUFACTURER_DATA_COMPANY_ID :> PayloadA),
      service_data |-> (SWITCHBOT_SERVICE_DATA_UUID :> <<53>>)],
     [manufacturer_data |-> (SWITCHBOT_MANUFACTURER_DATA_COMPANY_ID :> PayloadB),
      service_data |-> EmptyMap],
     [manufacturer_data |-> EmptyMap,
      service_data |-> (SWITCHBOT_SERVICE_DATA_UUID :> <<53>>)]}

\* what one turn of the stream gives the ingester: the kind of CentralEvent,
\* whether adapter.peripheral() finds the peripheral, its address, and what
\* peripheral.properties() returns (an error, None, or the properties)
Event(kind, peripheral, address, properties) ==
    [kind |-> kind, peripheral |-> peripheral, address |-> address,
     properties |-> properties]

\* an event that is no discovery or update, an event whose peripheral the
\* adapter does not find, and for every address every outcome of the
\* properties call
Events ==
    {Event("DeviceDisconnected", "Ok", UnknownAddress, Ok(None)),
     Event("DeviceUpdated", "Err", UnknownAddress, Ok(None))}
    \cup {Event("DeviceUpdated", "Ok", a, p) :
             a \in Addresses,
             p \in {Err("properties"), Ok(None)}
                     \cup {Ok(Some(q)) : q \in EventProperties}}

----------------------------------------------------------------------------
(* Wall-clock readings *)

\* offsets from minute boundary m, in microseconds, at which the clock is
\* read.  Around the first boundary: 30.001 s, 20.001 s, 20.0005 s, 20 s and
\* 5.0008 s before it; around the later ones 5.0008 s before it.
ClockOffsets(m) ==
    IF m = 1 THEN {-30001000, -20001000, -20000500, -20000000, -5000800}
    ELSE {-5000800}

TimePoints ==
    UNION {{m * MinuteMicros + o : o \in ClockOffsets(m)} : m \in 1..MaxMinute}

----------------------------------------------------------------------------
(* main.rs: the dedup buffer *)

\* main.rs:77-79: one empty BTreeMap per registered device
InitDb == [a \in DOMAIN devices |-> EmptyMap]

\* BTreeMap::insert
map_insert(map, key, value) ==
    [k \in DOMAIN map \cup {key} |-> IF k = key THEN value ELSE map[k]]

\* BTreeMap::remove
map_remove(map, key) == [k \in DOMAIN map \ {key} |-> map[k]]

\* offer with the comparison of main.rs:160 weakened from >= to >: a
\* candidate that ties with the stored entry replaces it
offer_replacing_ties(buffer, mac_address, rounded_measured_at, measured_at, diff, decoded) ==
    IF mac_address \notin DOMAIN buffer THEN buffer
    ELSE LET measurements == buffer[mac_address]
         IN  IF /\ rounded_measured_at \in DOMAIN measurements
                /\ diff > diff_millis(measurements[rounded_measured_at][1],
                                      rounded_measured_at)
             THEN buffer
             ELSE [buffer EXCEPT ![mac_address] =
                      map_insert(measurements, rounded_measured_at,
                                 <<measured_at, decoded>>)]

\* main.rs:150-165, with the lock held: the buffer after the candidate
offer(buffer, mac_address, rounded_measured_at, measured_at, diff, decoded) ==
    IF mac_address \notin DOMAIN buffer THEN buffer
    ELSE LET measurements == buffer[mac_address]
         IN  IF /\ rounded_measured_at \in DOMAIN measurements
                /\ diff >= diff_millis(measurements[rounded_measured_at][1],
                                       rounded_measured_at)
             THEN buffer
             ELSE [buffer EXCEPT ![mac_address] =
                      map_insert(measurements, rounded_measured_at,
                                 <<measured_at, decoded>>)]

\* what the offer did: "unknown device" (main.rs:150-153), "kept"
\* (main.rs:160-162), or the insert of main.rs:165 into an absent bucket
\* ("inserted") or over an entry ("replaced")
offer_branch(before, after, mac_address, rounded_measured_at) ==
    IF mac_address \notin DOMAIN before THEN "unknown device"
    ELSE IF rounded_measured_at \notin DOMAIN before[mac_address]
    THEN "inserted"
    ELSE IF after = before THEN "kept"
    ELSE "replaced"

NoIng == [mac_address |-> "", measured_at |-> 0, rounded_measured_at |-> 0,
          diff |-> 0, decoded |-> DecodedMeasurement(0, 0, None, None)]

\* too_far with the comparison of main.rs:107 strengthened from > to >=:
\* a candidate exactly 20 s from its minute is dropped
too_far_at_the_limit(diff) == diff >= ToleranceMillis

\* main.rs:107: the candidate is dropped when it is too far from its minute
too_far(diff) == diff > ToleranceMillis

\* registry_get that never misses: an address that is not registered is
\* given the first device of the registry
registry_get_or_first(mac_address) ==
    IF mac_address \in DOMAIN devices THEN Ok(devices[mac_address])
    ELSE Ok(devices[CHOOSE a \in DOMAIN devices : TRUE])

\* main.rs:112: devices.get(&mac_address)
registry_get(mac_address) ==
    IF mac_address \in DOMAIN devices THEN Ok(devices[mac_address])
    ELSE Err("unknown")

\* main.rs:85-146: one event, from events.next() up to the wait for the
\* lock.  The value is what the task carries to the lock, or NoIng when the
\* loop goes on to the next event.
ingest(event, clock) ==
    LET measured_at == clock
        rounded_measured_at == duration_round(measured_at)
        diff == diff_millis(measured_at, rounded_measured_at)
        device == registry_get(event.address)
        properties == event.properties
        decoded == decode_with_fallback(device.val, properties.val[1])
    IN  IF event.kind # "DeviceUpdated" THEN NoIng
        ELSE IF event.peripheral # "Ok" THEN NoIng
        ELSE IF too_far(diff) THEN NoIng
        ELSE IF ~device.ok THEN NoIng
        ELSE IF ~properties.ok THEN NoIng
        ELSE IF properties.val = None THEN NoIng
        ELSE IF ~decoded.ok THEN NoIng
        ELSE [mac_address |-> event.address, measured_at |-> measured_at,
              rounded_measured_at |-> rounded_measured_at, diff |-> diff,
              decoded |-> decoded.val]

\* main.rs:85-147 for one event of the stream
IngesterHandle(event) ==
    /\ ipc = "next"
    /\ LET carried == ingest(event, now)
       IN  /\ ing' = carried
           /\ ipc' = IF carried = NoIng THEN "next" ELSE "lock"
           /\ lastOffer' = IF carried = NoIng THEN lastOffer ELSE "none"
    /\ UNCHANGED <<now, db, lock, fpc, printer, lastInsert, table,
                   callArgs, callResult>>

IngesterEvent == \E event \in Events : IngesterHandle(event)

\* main.rs:148-165: the lock is taken, the candidate offered, and the guard
\* dropped at the end of the loop body, with no await in between
IngesterOffer ==
    /\ ipc = "lock"
    /\ lock = "free"
    /\ db' = offer(db, ing.mac_address, ing.rounded_measured_at,
                   ing.measured_at, ing.diff, ing.decoded)
    /\ lastOffer' = offer_branch(db, db', ing.mac_address,
                                 ing.rounded_measured_at)
    /\ ipc' = "next"
    /\ ing' = NoIng
    /\ UNCHANGED <<now, lock, fpc, printer, lastInsert, table,
                   callArgs, callResult>>


----------------------------------------------------------------------------
(* db.rs: the sink *)

\* "as _" into the INT2 arrays (db.rs:65-76): a u16 or u8 cast to i16
as_i16(v) == IF v >= 32768 THEN v - 65536 ELSE v

\* Option::map
option_map_i16(o) == IF o = None THEN None ELSE Some(as_i16(o[1]))

\* the row the UNNEST of db.rs:83 yields for one measurement
row_of(m) ==
    [device_id |-> m.device_id, measured_at |-> m.measured_at,
     temperature_celsius |-> m.temperature_celsius,
     humidity_percent |-> as_i16(m.humidity_percent),
     co2_ppm |-> option_map_i16(m.co2_ppm),
     light_level |-> option_map_i16(m.light_level)]

\* conflicts with the conflict target cut down to the device: a row is
\* dropped when its device has any row
conflicts_on_device_alone(rows, row) ==
    \E r \in rows : r.device_id = row.device_id

\* ON CONFLICT (device_id, measured_at)
conflicts(rows, row) ==
    \E r \in rows :
        r.device_id = row.device_id /\ r.measured_at = row.measured_at

\* insert_do_nothing as an upsert (DO UPDATE): the new row takes the place
\* of the stored one
insert_do_update(rows, row) ==
    {r \in rows : ~(r.device_id = row.device_id
                      /\ r.measured_at = row.measured_at)} \cup {row}

\* INSERT ... ON CONFLICT (device_id, measured_at) DO NOTHING of one row
insert_do_nothing(rows, row) ==
    IF conflicts(rows, row) THEN rows ELSE rows \cup {row}

RECURSIVE insert_rows(_, _)
insert_rows(rows, measurments) ==
    IF measurments = <<>> THEN rows
    ELSE insert_rows(insert_do_nothing(rows, row_of(Head(measurments))),
                     Tail(measurments))

\* db.rs:53-100 when every step succeeds: the table after the commit
bulk_insert_switchbot_measurements(rows, measurments) ==
    IF measurments = <<>> THEN rows ELSE insert_rows(rows, measurments)

\* db.rs:57-59: an empty batch returns Ok before any I/O; otherwise begin,
\* execute or commit may fail, and then nothing is committed
bulk_insert_may_fail(measurments) == measurments # <<>>

----------------------------------------------------------------------------
(* main.rs: the flush task *)

RECURSIVE SeqOfSet(_)
\* the elements of a set in the order an iterator happens to yield them
SeqOfSet(S) ==
    IF S = {} THEN <<>>
    ELSE LET x == CHOOSE y \in S : TRUE IN <<x>> \o SeqOfSet(S \ {x})

\* main.rs:183-186: the filter of keys_to_insert
flush_filter(measured_at, clock) ==
    num_milliseconds(measured_at - clock) > FlushMillis

\* main.rs:178-189
keys_to_insert(buffer, clock) ==
    SeqOfSet({<<device_id, measured_at>> \in
                 UNION {{<<d, b>> : b \in DOMAIN buffer[d]} : d \in DOMAIN buffer} :
                 flush_filter(measured_at, clock)})

\* main.rs:191-205
measurments_of(buffer, keys) ==
    [i \in 1..Len(keys) |->
        LET device_id == keys[i][1]
            measured_at == keys[i][2]
            m == buffer[device_id][measured_at][2]
        IN  [device_id |-> device_id, measured_at |-> measured_at,
             temperature_celsius |-> m.temperature_celsius,
             humidity_percent |-> m.humidity_percent,
             co2_ppm |-> m.co2_ppm,
             light_level |-> m.light_level]]

RECURSIVE remove_keys(_, _)
\* main.rs:212-216
remove_keys(buffer, keys) ==
    IF keys = <<>> THEN buffer
    ELSE LET device_id == Head(keys)[1]
             measured_at == Head(keys)[2]
         IN  remove_keys(
                 IF device_id \in DOMAIN buffer
                 THEN [buffer EXCEPT ![device_id] = map_remove(@, measured_at)]
                 ELSE buffer,
                 Tail(keys))

NoPrinter == [keys_to_insert |-> <<>>, measurments |-> <<>>]

\* FlushTick with the guard dropped before the sink is called: the batch is
\* built under the lock and sent without it
FlushTick_dropping_the_guard ==
    /\ fpc = "tick"
    /\ lock = "free"
    /\ lock' = "free"
    /\ lastInsert' = "None"
    /\ LET keys == keys_to_insert(db, now)
       IN  printer' = [keys_to_insert |-> keys,
                       measurments |-> measurments_of(db, keys)]
    /\ fpc' = "insert"
    /\ UNCHANGED <<now, db, ipc, ing, lastOffer, table, callArgs, callResult>>

\* main.rs:173-205: the interval ticks, the lock is taken, the clock read,
\* the keys and the batch built; the task then calls the sink
FlushTick ==
    /\ fpc = "tick"
    /\ lock = "free"
    /\ lock' = "printer"
    /\ lastInsert' = "None"
    /\ LET keys == keys_to_insert(db, now)
       IN  printer' = [keys_to_insert |-> keys,
                       measurments |-> measurments_of(db, keys)]
    /\ fpc' = "insert"
    /\ UNCHANGED <<now, db, ipc, ing, lastOffer, table, callArgs, callResult>>

\* main.rs:207-217 when the sink returns Ok: the keys are removed and the
\* guard is dropped at the end of the loop body
FlushInsertOk ==
    /\ fpc = "insert"
    /\ table' = bulk_insert_switchbot_measurements(table, printer.measurments)
    /\ lastInsert' = "Ok"
    /\ db' = remove_keys(db, printer.keys_to_insert)
    /\ lock' = "free"
    /\ fpc' = "tick"
    /\ printer' = NoPrinter
    /\ UNCHANGED <<now, ipc, ing, lastOffer, callArgs, callResult>>

\* main.rs:207-210 when the sink returns Err: the error is logged and the
\* loop continues, which drops the guard
FlushInsertErr ==
    /\ fpc = "insert"
    /\ bulk_insert_may_fail(printer.measurments)
    /\ lastInsert' = "Err"
    /\ lock' = "free"
    /\ fpc' = "tick"
    /\ UNCHANGED <<now, db, ipc, ing, lastOffer, printer, table, callArgs, callResult>>

----------------------------------------------------------------------------
(* The wall clock *)

\* time passes
ClockAdvance ==
    /\ \E t \in TimePoints : t > now /\ now' = t
    /\ UNCHANGED <<db, lock, ipc, ing, lastOffer, fpc, printer, lastInsert, table,
                   callArgs, callResult>>

\* the system clock is set back (Utc::now() is not monotonic)
ClockStepBack ==
    /\ \E t \in TimePoints : t < now /\ now' = t
    /\ UNCHANGED <<db, lock, ipc, ing, lastOffer, fpc, printer, lastInsert, table,
                   callArgs, callResult>>

----------------------------------------------------------------------------
(* The two tasks *)

NoCall == <<>>

NoCallResult == "none"

\* main.rs:43-83: both tasks at the top of their loops, the buffer with an
\* empty map for every registered device, the clock at the given reading
IdleAt(clock) ==
    /\ now = clock
    /\ db = InitDb
    /\ lock = "free"
    /\ ipc = "next"
    /\ ing = NoIng
    /\ lastOffer = "none"
    /\ fpc = "tick"
    /\ printer = NoPrinter
    /\ lastInsert = "None"
    /\ table = {}

Init ==
    /\ IdleAt(MinuteMicros - 30001000)
    /\ callArgs = NoCall
    /\ callResult = NoCallResult

Next ==
    \/ IngesterEvent
    \/ IngesterOffer
    \/ FlushTick
    \/ FlushInsertOk
    \/ FlushInsertErr
    \/ ClockAdvance
    \/ ClockStepBack

Spec == Init /\ [][Next]_vars


----------------------------------------------------------------------------
(* The two tasks with a clock that only advances and a sink that succeeds *)

LiveNext ==
    \/ IngesterEvent
    \/ IngesterOffer
    \/ FlushTick
    \/ FlushInsertOk
    \/ ClockAdvance

\* the interval keeps ticking (main.rs:171-173), the sink call returns
\* (main.rs:207), the lock is granted to the waiting ingester (main.rs:148)
\* and time passes
LiveSpec ==
    /\ Init
    /\ [][LiveNext]_vars
    /\ WF_vars(FlushTick)
    /\ WF_vars(FlushInsertOk)
    /\ WF_vars(IngesterOffer)
    /\ WF_vars(ClockAdvance)

----------------------------------------------------------------------------
(* The sink alone: batches delivered to bulk_insert_switchbot_measurements *)

\* the measurements a caller hands over: the readings of PayloadA and
\* PayloadB for the registered device in two minutes, and one reading of
\* another device
SinkMeasurements ==
    {[device_id |-> d, measured_at |-> m * MinuteMicros,
      temperature_celsius |-> v[1], humidity_percent |-> v[2],
      co2_ppm |-> Some(v[3]), light_level |-> None] :
        d \in RegisteredAddresses, m \in {1, 2},
        v \in {<<215, 50, 300>>, <<-5, 100, 40000>>}}
    \cup {[device_id |-> UnknownAddress, measured_at |-> MinuteMicros,
           temperature_celsius |-> 215, humidity_percent |-> 50,
           co2_ppm |-> None, light_level |-> Some(20)]}

Batches ==
    UNION {[1..n -> SinkMeasurements] : n \in 0..MaxBatch}

\* db.rs:53-100, every step succeeding
SinkInsertOk ==
    /\ \E batch \in Batches :
          /\ callArgs' = batch
          /\ table' = bulk_insert_switchbot_measurements(table, batch)
    /\ callResult' = "Ok"
    /\ UNCHANGED <<now, db, lock, ipc, ing, lastOffer, fpc, printer,
                   lastInsert>>

\* db.rs:78-97, one of begin, execute and commit failing
SinkInsertErr ==
    /\ \E batch \in Batches :
          /\ bulk_insert_may_fail(batch)
          /\ callArgs' = batch
    /\ callResult' = "Err"
    /\ UNCHANGED <<now, db, lock, ipc, ing, lastOffer, fpc, printer,
                   lastInsert, table>>

SinkNext == SinkInsertOk \/ SinkInsertErr

SinkSpec == Init /\ [][SinkNext]_vars

----------------------------------------------------------------------------
(* The power meter decoder alone *)

\* the values of bytes 0 to 6 of a payload
RatocByteValues == {0, 255}

\* the values of byte 7: the power is kept below 2^31
RatocTopByteValues == {0, 1, 127}

\* the bytes after the eighth
RatocTails ==
    UNION {[1..n -> {0, 255}] : n \in 0..MaxExtraBytes}

\* payloads of 8 bytes and more, and two that are too short
RatocPayloads ==
    {<<b[1], b[2], b[3], b[4], b[5], b[6], b[7], t>> \o tail :
        b \in [1..7 -> RatocByteValues], t \in RatocTopByteValues,
        tail \in RatocTails}
    \cup {<<>>, <<1, 2, 3, 4, 5, 6, 7>>}

\* ratocsystems.rs:34-61 applied to one payload
RatocDecode ==
    /\ \E data \in RatocPayloads :
          /\ callArgs' = <<data>>
          /\ callResult' = decode_ratocsystems_manufacturer_data(data)
    /\ UNCHANGED <<now, db, lock, ipc, ing, lastOffer, fpc, printer,
                   lastInsert, table>>

RatocNext == RatocDecode

RatocSpec == Init /\ [][RatocNext]_vars

----------------------------------------------------------------------------
(* decode_temperature alone *)

\* the result slot of a decoder that has its arguments and has not run yet
NotCalled == [ok |-> FALSE, err |-> "not called"]

\* every two-byte temperature field
TemperatureFields == {<<v0, v1>> : v0 \in 0..255, v1 \in 0..255}

TemperatureInit ==
    /\ IdleAt(MinuteMicros - 30001000)
    /\ callArgs \in TemperatureFields
    /\ callResult = NotCalled

\* switchbot.rs:215-227 applied to the field
TemperatureDecode ==
    /\ callResult = NotCalled
    /\ callResult' = decode_temperature(callArgs[1], callArgs[2])
    /\ UNCHANGED <<now, db, lock, ipc, ing, lastOffer, fpc, printer,
                   lastInsert, table, callArgs>>

TemperatureNext == TemperatureDecode

TemperatureSpec == TemperatureInit /\ [][TemperatureNext]_vars

----------------------------------------------------------------------------
(* The SwitchBot decoders alone, and the ingester on one advertisement *)

\* humidity fields: 0, 100, 101, 127, and 100 and 101 with the top bit set
HumidityBytes == {0, 100, 101, 127, 228, 229}

\* light fields: 0, 20, 21, and 20 and 21 with the top bit set
LightBytes == {0, 20, 21, 148, 149}

\* buffers of every length from empty to past the longest minimum length:
\* 21.5 C at 8 and 9, humidity fields at 10 and 15, a light field at 12, and
\* 300 or 40000 at 13 and 14
DecodePayloads ==
    {Bytes(len, (8 :> 5) @@ (9 :> 149) @@ (10 :> h10) @@ (12 :> l)
                 @@ (13 :> c[1]) @@ (14 :> c[2]) @@ (15 :> h15)) :
        len \in 0..(17 + MaxExtraBytes), h10 \in HumidityBytes,
        l \in LightBytes, c \in {<<1, 44>>, <<156, 64>>},
        h15 \in HumidityBytes}

DecodeInputs == {<<ty, data>> : ty \in DeviceTypes, data \in DecodePayloads}

\* the first byte of the service data of a model (switchbot.rs:204-213);
\* the other models send none the code knows
service_data_of(device_type) ==
    CASE device_type = "Hub2" -> (SWITCHBOT_SERVICE_DATA_UUID :> <<118>>)
      [] device_type = "Meter" -> (SWITCHBOT_SERVICE_DATA_UUID :> <<84>>)
      [] device_type = "MeterPlus" -> (SWITCHBOT_SERVICE_DATA_UUID :> <<105>>)
      [] device_type = "WoIOSensor" -> (SWITCHBOT_SERVICE_DATA_UUID :> <<119>>)
      [] device_type = "MeterProCO2" -> (SWITCHBOT_SERVICE_DATA_UUID :> <<53>>)
      [] OTHER -> EmptyMap

\* the DeviceUpdated event of the registered device advertising the buffer
\* as a device of the given model
AdvertisementOf(device_type, data) ==
    Event("DeviceUpdated", "Ok", "aa:00:00:00:00:01",
          Ok(Some([manufacturer_data |->
                       (SWITCHBOT_MANUFACTURER_DATA_COMPANY_ID :> data),
                   service_data |-> service_data_of(device_type)])))

\* the clock reads 5.0008 s before a minute: within the tolerance
DecodeInit ==
    /\ IdleAt(MinuteMicros - 5000800)
    /\ callArgs \in DecodeInputs
    /\ callResult = NotCalled

\* switchbot.rs:38-53 applied to the model and the buffer
DecodeCall ==
    /\ callResult = NotCalled
    /\ callResult' = decode_manufacturer_data(callArgs[1], callArgs[2])
    /\ UNCHANGED <<now, db, lock, ipc, ing, lastOffer, fpc, printer,
                   lastInsert, table, callArgs>>

\* main.rs:85-147 on the event that carries the buffer
DecodeIngest ==
    /\ callResult # NotCalled
    /\ IngesterHandle(AdvertisementOf(callArgs[1], callArgs[2]))

DecodeNext == DecodeCall \/ DecodeIngest \/ IngesterOffer

DecodeSpec == DecodeInit /\ [][DecodeNext]_vars

----------------------------------------------------------------------------
(* Properties of the dedup buffer *)

\* the distance of an observation from a bucket boundary, in microseconds
OffsetMicros(measured_at, bucket) ==
    IF measured_at >= bucket THEN measured_at - bucket
    ELSE bucket - measured_at

\* the same distance in whole milliseconds
OffsetMillis(measured_at, bucket) ==
    OffsetMicros(measured_at, bucket) \div MicrosPerMilli

\* this step is the ingester's offer to a bucket that has an entry
OfferToExistingEntry ==
    /\ ipc = "lock"
    /\ ipc' = "next"
    /\ ing.mac_address \in DOMAIN db
    /\ ing.rounded_measured_at \in DOMAIN db[ing.mac_address]

\* the buffer with the candidate of ing in place of its bucket's entry
DbWithCandidate ==
    [db EXCEPT ![ing.mac_address][ing.rounded_measured_at] =
        <<ing.measured_at, ing.decoded>>]

\* C1 as stated: an offer to a bucket that has an entry replaces the entry if
\* and only if the candidate's distance from the bucket boundary is strictly
\* smaller than the stored entry's distance, and otherwise leaves the buffer
\* as it is.
C1_ReplaceIffStrictlyCloser ==
    [][OfferToExistingEntry =>
         IF OffsetMicros(ing.measured_at, ing.rounded_measured_at)
              < OffsetMicros(db[ing.mac_address][ing.rounded_measured_at][1],
                             ing.rounded_measured_at)
         THEN db' = DbWithCandidate
         ELSE db' = db]_vars

\* C1 amended: an offer to a bucket that has an entry replaces the entry if
\* and only if the candidate's distance from the bucket boundary, in whole
\* milliseconds, is strictly smaller than the stored entry's distance in
\* whole milliseconds; a candidate whose millisecond distance is equal or
\* larger leaves the buffer as it is, so the earliest arrival among the
\* candidates of least millisecond distance stays.
C1_ReplaceIffStrictlyCloserInMillis ==
    [][OfferToExistingEntry =>
         IF OffsetMillis(ing.measured_at, ing.rounded_measured_at)
              < OffsetMillis(db[ing.mac_address][ing.rounded_measured_at][1],
                             ing.rounded_measured_at)
         THEN db' = DbWithCandidate
         ELSE db' = db]_vars

\* an offer has just replaced the entry of its bucket by a closer candidate
C1_Witness ==
    /\ lastOffer = "replaced"
    /\ \E d \in DOMAIN db : \E b \in DOMAIN db[d] :
          OffsetMillis(db[d][b][1], b) < ToleranceMillis

\* the bucket an observation belongs to: the minute boundary nearest to it
NearestMinute(t) ==
    CHOOSE b \in {k * MinuteMicros : k \in 0..(MaxMinute + 1)} :
        \A c \in {k * MinuteMicros : k \in 0..(MaxMinute + 1)} :
            OffsetMicros(t, b) <= OffsetMicros(t, c)

\* the events that pass every check but the one on the time: an update of a
\* registered device whose properties decode
DecodableEvents ==
    {e \in Events :
        /\ e.kind = "DeviceUpdated"
        /\ e.peripheral = "Ok"
        /\ e.address \in RegisteredAddresses
        /\ e.properties.ok
        /\ e.properties.val # None
        /\ decode_with_fallback(devices[e.address], e.properties.val[1]).ok}

\* C2 as stated: every stored entry has a whole-minute bucket key and an
\* observation time within 20 seconds of that key.
C2_EntriesWithinTwentySeconds ==
    \A d \in DOMAIN db : \A b \in DOMAIN db[d] :
        /\ b % MinuteMicros = 0
        /\ OffsetMicros(db[d][b][1], b) <= ToleranceMillis * MicrosPerMilli

\* C2 amended: a decodable reading of a registered device taken at the
\* current clock reading is carried to the buffer if and only if its distance
\* from the nearest minute, in whole milliseconds, is at most 20000 (so at
\* exactly 20 s it is, and at 20.001 s it is not); and every candidate and
\* every stored entry has a whole-minute bucket key, the minute nearest to
\* its observation time, which is less than 20.001 s away.
C2_EntriesWithinTwentySecondsInMillis ==
    /\ \A e \in DecodableEvents :
          (ingest(e, now) # NoIng)
             <=> (OffsetMillis(now, NearestMinute(now)) <= ToleranceMillis)
    /\ ipc = "lock" =>
          /\ ing.rounded_measured_at = NearestMinute(ing.measured_at)
          /\ OffsetMicros(ing.measured_at, ing.rounded_measured_at)
                < (ToleranceMillis + 1) * MicrosPerMilli
    /\ \A d \in DOMAIN db : \A b \in DOMAIN db[d] :
          /\ b % MinuteMicros = 0
          /\ b = NearestMinute(db[d][b][1])
          /\ OffsetMicros(db[d][b][1], b)
                < (ToleranceMillis + 1) * MicrosPerMilli

\* a reading taken exactly 20 s from its minute is in the buffer
C2_Witness ==
    \E d \in DOMAIN db : \E b \in DOMAIN db[d] :
        OffsetMicros(db[d][b][1], b) = ToleranceMillis * MicrosPerMilli


----------------------------------------------------------------------------
(* Properties of the flush task *)

\* the keys of every entry of a buffer
EntryKeys(buffer) ==
    UNION {{<<d, b>> : b \in DOMAIN buffer[d]} : d \in DOMAIN buffer}

\* the elements of a Vec
Elems(seq) == {seq[i] : i \in 1..Len(seq)}

\* the keys of the measurements of a batch
BatchKeys(measurments) ==
    {<<measurments[i].device_id, measurments[i].measured_at>> :
        i \in 1..Len(measurments)}

\* this step is a tick of the flush task: the keys are selected
TickStep == fpc = "tick" /\ fpc' = "insert"

\* this step is the return of the sink call of a tick
SinkReturnStep == fpc = "insert" /\ fpc' = "tick"

\* C3: on every flush tick the entries selected as final and sent to the
\* sink are exactly the entries whose bucket is strictly older than the
\* tick's current time minus the 20 s tolerance, and when the sink call
\* returns Ok exactly these are removed.
C3_FlushSelectsBucketsOlderThanTolerance ==
    [][/\ TickStep =>
            /\ Elems(printer'.keys_to_insert)
                 = {k \in EntryKeys(db) :
                       k[2] < now - ToleranceMillis * MicrosPerMilli}
            /\ BatchKeys(printer'.measurments)
                 = Elems(printer'.keys_to_insert)
       /\ (SinkReturnStep /\ lastInsert' = "Ok") =>
            EntryKeys(db') = EntryKeys(db) \ Elems(printer.keys_to_insert)
      ]_vars

\* C4: a tick whose sink call fails removes nothing and the task goes on to
\* the next tick; the entries of the failed batch are selected again by the
\* next tick; and entries leave the buffer only in a tick whose sink call
\* returned Ok, and then exactly the entries that were sent.
C4_FailedBatchRetainedAndSelectedAgain ==
    [][/\ (SinkReturnStep /\ lastInsert' = "Err") => db' = db
       /\ (TickStep /\ lastInsert = "Err") =>
            Elems(printer.keys_to_insert) \subseteq Elems(printer'.keys_to_insert)
       /\ (EntryKeys(db') # EntryKeys(db) /\ EntryKeys(db') \subseteq EntryKeys(db)) =>
            /\ SinkReturnStep
            /\ lastInsert' = "Ok"
            /\ EntryKeys(db) \ EntryKeys(db') = BatchKeys(printer.measurments)
      ]_vars

\* C5: the lock around the buffer is not held while the flush task waits for
\* the sink's write of a batch.
C5_LockFreeDuringSinkWrite ==
    (fpc = "insert" /\ printer.measurments # <<>>) => lock = "free"


\* C7: the rows of the table never change and never vanish, and no two rows
\* share a (device, bucket) pair: a pair that has been persisted keeps the
\* values written first, whatever is flushed for it later.
C7_PersistedRowsNeverChange ==
    /\ [](\A r1 \in table : \A r2 \in table :
             (r1.device_id = r2.device_id /\ r1.measured_at = r2.measured_at)
                => r1 = r2)
    /\ [][\A r \in table : r \in table']_vars

\* a bucket that was persisted has been offered again, is in a batch with
\* other values than the persisted ones, and the batch is with the sink
C7_Witness ==
    /\ fpc = "insert"
    /\ \E i \in 1..Len(printer.measurments) : \E r \in table :
          /\ r.device_id = printer.measurments[i].device_id
          /\ r.measured_at = printer.measurments[i].measured_at
          /\ r # row_of(printer.measurments[i])

----------------------------------------------------------------------------
(* Properties of the registry lookup *)

\* C8: an event whose address is not registered is dropped, whatever its
\* properties and whenever it arrives; no candidate of an unregistered
\* address waits for the lock or reaches the offer; and the devices of the
\* buffer are the registered ones.
C8_UnknownAddressLeavesBufferAlone ==
    /\ \A e \in Events :
          e.address \notin RegisteredAddresses => ingest(e, now) = NoIng
    /\ ipc = "lock" => ing.mac_address \in RegisteredAddresses
    /\ lastOffer # "unknown device"
    /\ DOMAIN db = RegisteredAddresses

\* the buffer holds an entry, and an event can arrive now that is dropped
\* only because its address is unknown: the same event of a registered
\* device is carried to the buffer
C8_Witness ==
    /\ ipc = "next"
    /\ \E d \in DOMAIN db : DOMAIN db[d] # {}
    /\ \E e \in Events : \E f \in DecodableEvents :
          /\ e.address = UnknownAddress
          /\ e.kind = f.kind
          /\ e.peripheral = f.peripheral
          /\ e.properties = f.properties
          /\ ingest(f, now) # NoIng
          /\ ingest(e, now) = NoIng

----------------------------------------------------------------------------
(* Properties of the sink *)

\* the rows of a table with the key of a measurement
RowsOf(rows, m) ==
    {r \in rows : r.device_id = m.device_id /\ r.measured_at = m.measured_at}

\* this step delivers again the batch that was just delivered with success
SameBatchAgain ==
    callResult = "Ok" /\ callResult' = "Ok" /\ callArgs' = callArgs

\* C6: after a batch is delivered with success every (device, bucket) pair
\* of it has exactly one row, no two rows of the table share a pair, the same
\* batch delivered again leaves the table as it is, and an empty batch
\* succeeds and leaves the table as it is.
C6_BulkInsertIdempotent ==
    /\ [](\A r1 \in table : \A r2 \in table :
             (r1.device_id = r2.device_id /\ r1.measured_at = r2.measured_at)
                => r1 = r2)
    /\ [](callResult = "Ok" =>
             \A i \in 1..Len(callArgs) :
                 Cardinality(RowsOf(table, callArgs[i])) = 1)
    /\ [][SameBatchAgain => table' = table]_vars
    /\ [][(callResult' # NoCallResult /\ callArgs' = <<>>) =>
             (callResult' = "Ok" /\ table' = table)]_vars

\* a batch was delivered with success and one of its measurements is not in
\* the table: its pair was stored before with other values
C6_Witness ==
    /\ callResult = "Ok"
    /\ \E i \in 1..Len(callArgs) : row_of(callArgs[i]) \notin table

----------------------------------------------------------------------------
(* Properties of the power meter decoder *)

\* C10: for every payload of at least 8 bytes the decoder succeeds, the
\* power in milliwatts is the big-endian number of bytes 5, 6, 7, the voltage
\* in tenths of a volt is byte 1 + 256 * byte 2, the current in milliamps is
\* byte 3 + 256 * byte 4, and byte 0 does not affect the result.
C10_PowerIsBigEndianOfBytes567 ==
    (callArgs # NoCall /\ Len(callArgs[1]) >= 8) =>
        LET data == callArgs[1]
        IN  /\ callResult.ok
            /\ callResult.val.power_mw =
                   At(data, 5) * 65536 + At(data, 6) * 256 + At(data, 7)
            /\ callResult.val.voltage_dv = At(data, 1) + 256 * At(data, 2)
            /\ callResult.val.current_ma = At(data, 3) + 256 * At(data, 4)
            /\ \A b \in RatocByteValues :
                   decode_ratocsystems_manufacturer_data(
                       [data EXCEPT ![1] = b]) = callResult

----------------------------------------------------------------------------
(* Properties of the temperature decoder *)

\* C11: for every two-byte field the decoded temperature in tenths of a
\* degree is sign * ((high byte & 0x7f) * 10 + (low byte & 0x0f)), with sign
\* +1 when the top bit of the high byte is set and -1 when it is clear; the
\* upper nibble of the low byte does not affect the result; fractional 5 and
\* integral 0 give +0.5 with the bit set and -0.5 with it clear.
C11_TemperatureSignMagnitude ==
    callResult # NotCalled =>
        LET low == callArgs[1]
            high == callArgs[2]
            sign_bit == high \div 128
            integral == high - 128 * sign_bit
            fractional == low - 16 * (low \div 16)
            magnitude == integral * 10 + fractional
        IN  /\ callResult.ok
            /\ sign_bit = 1 => callResult.val = magnitude
            /\ sign_bit = 0 => callResult.val = 0 - magnitude
            /\ \A nibble \in 0..15 :
                   decode_temperature(16 * nibble + fractional, high)
                       = callResult
            /\ (fractional = 5 /\ high = 128) => callResult.val = 5
            /\ (fractional = 5 /\ high = 0) => callResult.val = -5

\* the field 0xf5 0x00 was decoded: upper nibble set, sign bit clear, -0.5
C11_Witness ==
    /\ callArgs = <<245, 0>>
    /\ callResult = Ok(-5)

----------------------------------------------------------------------------
(* Properties of the SwitchBot decoders *)

\* the models whose decoder is written
DecodedTypes == {"Hub2", "MeterPlus", "WoIOSensor", "MeterProCO2"}

\* the least length a model's decoder accepts
MinLength(device_type) ==
    CASE device_type = "Hub2" -> 17
      [] device_type = "MeterPlus" -> 11
      [] device_type = "WoIOSensor" -> 12
      [] device_type = "MeterProCO2" -> 16
      [] OTHER -> 0

\* where a model keeps its humidity field
HumidityIndex(device_type) == IF device_type = "Hub2" THEN 15 ELSE 10

\* C12: a measurement a decoder returns has humidity in 0..100 and, when
\* present, light level in 0..20, both equal to the low 7 bits of their
\* fields; a buffer long enough for its model whose humidity field has low 7
\* bits above 100, or whose light field has low 7 bits above 20, is an
\* error.
C12_HumidityAndLightInRange ==
    callResult # NotCalled =>
        LET ty == callArgs[1]
            data == callArgs[2]
            long_enough == ty \in DecodedTypes /\ Len(data) >= MinLength(ty)
        IN  /\ callResult.ok =>
                  /\ callResult.val.humidity_percent \in 0..100
                  /\ callResult.val.humidity_percent
                         = At(data, HumidityIndex(ty)) % 128
                  /\ callResult.val.light_level # None =>
                        /\ callResult.val.light_level[1] \in 0..20
                        /\ callResult.val.light_level[1] = At(data, 12) % 128
                  /\ ty = "Hub2" => callResult.val.light_level # None
            /\ (long_enough /\ At(data, HumidityIndex(ty)) % 128 > 100)
                  => ~callResult.ok
            /\ (long_enough /\ ty = "Hub2" /\ At(data, 12) % 128 > 20)
                  => ~callResult.ok

\* a Hub 2 buffer with humidity field 0xe4 and light field 0x94 was decoded
\* to 100 % and level 20
C12_Witness ==
    /\ callArgs[1] = "Hub2"
    /\ Len(callArgs[2]) >= 17
    /\ At(callArgs[2], 15) = 228
    /\ At(callArgs[2], 12) = 148
    /\ callResult.ok
    /\ callResult.val.humidity_percent = 100
    /\ callResult.val.light_level = Some(20)

\* C13: for every model and every buffer the decoder returns a measurement
\* or an error and never indexes past the end; a buffer shorter than the
\* model's minimum length is an error; and when the decoding of an event
\* fails the ingester carries nothing to the lock, stays at the top of its
\* loop and the buffer stays as it was.
C13_BadAdvertisementIsDropped ==
    callResult # NotCalled =>
        LET ty == callArgs[1]
            data == callArgs[2]
            advertisement == AdvertisementOf(ty, data)
            decoded == decode_with_fallback(devices[advertisement.address],
                                            advertisement.properties.val[1])
        IN  /\ callResult # Panic
            /\ decoded # Panic
            /\ (ty \notin DecodedTypes \/ Len(data) < MinLength(ty))
                  => ~callResult.ok
            /\ ~decoded.ok =>
                  /\ ipc = "next"
                  /\ ing = NoIng
                  /\ db = InitDb
                  /\ ingest(advertisement, now) = NoIng

\* the empty buffer of a Hub 2 was decoded to an error, and the ingester is
\* at the top of its loop with the buffer empty
C13_Witness ==
    /\ callArgs = <<"Hub2", <<>>>>
    /\ callResult = Err("too short")
    /\ ipc = "next"
    /\ db = InitDb

----------------------------------------------------------------------------
(* Progress of the flush *)

\* C14: with the flush task ticking, the clock advancing and the sink
\* succeeding, every reading accepted into the buffer is eventually sent and
\* removed: no bucket stays in the buffer for ever.  The buckets are those
\* the clock of the model passes by more than the tolerance, the last minute
\* excepted.
C14_AcceptedReadingEventuallyFlushed ==
    \A d \in RegisteredAddresses : \A m \in 1..(MaxMinute - 1) :
        (m * MinuteMicros \in DOMAIN db[d])
            ~> (m * MinuteMicros \notin DOMAIN db[d])

----------------------------------------------------------------------------
(* Serialization of offer and drain *)

\* the measurement a tick builds from the entry of a key (main.rs:191-205)
SentFor(buffer, d, b) ==
    [device_id |-> d, measured_at |-> b,
     temperature_celsius |-> buffer[d][b][2].temperature_celsius,
     humidity_percent |-> buffer[d][b][2].humidity_percent,
     co2_ppm |-> buffer[d][b][2].co2_ppm,
     light_level |-> buffer[d][b][2].light_level]

\* C15: in every interleaving of the two tasks, from a tick's selection to
\* its removal the selected entries hold exactly the measurements the tick
\* sends; each entry the tick removes holds the measurement it sent; and an
\* entry leaves the buffer in no other step.
C15_OfferAndDrainSerialized ==
    /\ [](fpc = "insert" =>
             /\ BatchKeys(printer.measurments) \subseteq EntryKeys(db)
             /\ \A i \in 1..Len(printer.measurments) :
                    printer.measurments[i]
                        = SentFor(db, printer.measurments[i].device_id,
                                  printer.measurments[i].measured_at))
    /\ [][\A k \in EntryKeys(db) \ EntryKeys(db') :
             /\ SinkReturnStep
             /\ lastInsert' = "Ok"
             /\ SentFor(db, k[1], k[2]) \in Elems(printer.measurments)]_vars
    /\ [][\A k \in EntryKeys(db) \cap EntryKeys(db') :
             db'[k[1]][k[2]] # db[k[1]][k[2]] => fpc = "tick"]_vars

\* a tick has selected a bucket and waits for the sink while the ingester
\* waits for the lock with a reading that would replace the selected entry
C15_Witness ==
    /\ fpc = "insert"
    /\ ipc = "lock"
    /\ <<ing.mac_address, ing.rounded_measured_at>>
           \in BatchKeys(printer.measurments)
    /\ ing.diff < diff_millis(
                      db[ing.mac_address][ing.rounded_measured_at][1],
                      ing.rounded_measured_at)

----------------------------------------------------------------------------
(* The CO2 column *)

\* C16: the CO2 value written to the sink for a reading is the value
\* decoded from its two bytes (0..65535): the row a successful flush writes
\* for a measurement carries the measurement's CO2 value, and no row holds a
\* CO2 value outside 0..65535.
C16_Co2WrittenAsDecoded ==
    [][(SinkReturnStep /\ lastInsert' = "Ok") =>
          /\ \A r \in table' :
                 r.co2_ppm # None => r.co2_ppm[1] \in 0..65535
          /\ \A i \in 1..Len(printer.measurments) :
                 LET m == printer.measurments[i]
                 IN  RowsOf(table, m) = {} =>
                         \E r \in RowsOf(table', m) :
                             r.co2_ppm = m.co2_ppm]_vars

====
